---- MODULE Spec2Model ----
(***************************************************************************)
(* RealEstateDash: the aggregation pipeline of the two Streamlit           *)
(* dashboards, dashboards/streamlit_app.py (real-estate brokerage) and     *)
(* dashboards/dashman.py (handyman jobs).                                   *)
(*                                                                         *)
(* A pandas DataFrame is a sequence of rows; a row is a record whose       *)
(* DOMAIN is the frame's columns plus "index", the row's pandas index      *)
(* label (read_csv gives a RangeIndex 0..n-1, boolean indexing keeps the   *)
(* labels, merge and reset_index renumber).  A nullable cell is <<>>       *)
(* (NaN / NaT) or <<v>>.  A float64 cell is a record: a finite value is    *)
(* an exact reduced fraction (binary rounding is not modelled), and the    *)
(* IEEE specials +inf, -inf and NaN are values of their own.               *)
(***************************************************************************)
EXTENDS Integers, Sequences, FiniteSets, TLC

\* ------------------------------------------------------------ bounds
MaxAds == 2
MaxDeals == 2
MaxInvoices == 2
MaxBoardInvoices == 3
MaxListings == 2
MaxJobs == 2
ScoreLevels == 2

\* ------------------------------------------------- program constants
ClosureRateDivisor == 4
RevenuePerDeal == 5000
TopLeads == 10

\* ------------------------------------------------------ nullable cells
NULL == <<>>
Some(v) == <<v>>
IsNull(c) == c = <<>>
Val(c) == c[1]

\* ------------------------------------------------------- float64 cells
NaN == [k |-> "nan", n |-> 0, d |-> 0]
Inf(s) == [k |-> "inf", n |-> s, d |-> 0]
Fin(n, d) == [k |-> "fin", n |-> n, d |-> d]
IsFinite(x) == x.k = "fin"

Abs(x) == IF x < 0 THEN -x ELSE x

RECURSIVE Gcd(_, _)
Gcd(a, b) == IF b = 0 THEN a ELSE Gcd(b, a % b)

\* numpy true division of two int64 cells, a / b: no exception, x/0 is
\* +-inf and 0/0 is NaN.
FDiv(a, b) ==
  IF b = 0
    THEN IF a = 0 THEN NaN ELSE Inf(IF a > 0 THEN 1 ELSE -1)
    ELSE LET g == Gcd(Abs(a), Abs(b))
             s == IF b < 0 THEN -1 ELSE 1
         IN Fin((s * a) \div g, (s * b) \div g)

\* ------------------------------------------------------ frame helpers
RECURSIVE SumCol(_, _)
\* Series.sum() of an integer column without nulls; 0 on the empty frame.
SumCol(rows, col) ==
  IF rows = <<>> THEN 0 ELSE rows[1][col] + SumCol(Tail(rows), col)

Range(s) == {s[i] : i \in 1..Len(s)}

\* reset_index / merge: a fresh RangeIndex 0..n-1.
Renumber(rows) == [i \in 1..Len(rows) |-> [rows[i] EXCEPT !.index = i - 1]]

Project(r, cols) == [c \in cols |-> r[c]]

\* frame[col] = value, on one row: the column is added or overwritten.
SetCol(r, col, v) ==
  [c \in (DOMAIN r) \cup {col} |-> IF c = col THEN v ELSE r[c]]

VARIABLES
  pc,
  csv,
  fub, dotloop, quickbooks, ads, agents, mls,
  under_contract_ids, forecast, expected_commission,
  closed_deals, leaderboard1, leaderboard, agent_summary,
  selected_agent, deals, agent_metrics,
  merged, table_view,
  by_city,
  top_leads,
  df, dash_metrics, daily, tech_perf, type_summary, upcoming

sources == <<fub, dotloop, quickbooks, ads, agents, mls>>
overviewOut == <<under_contract_ids, forecast, expected_commission, closed_deals,
                 leaderboard1, leaderboard, agent_summary>>
agentOut == <<selected_agent, deals, agent_metrics>>
marketingOut == <<merged, table_view>>
dashVars == <<df, dash_metrics, daily, tech_perf, type_summary, upcoming>>
vars == <<pc, csv, sources, overviewOut, agentOut, marketingOut, by_city,
          top_leads, dashVars>>

\* -------------------------------------------------------- Overview tab
\* Mutant: line 28 without the status filter.
AllLoopIds(dl) == [i \in 1..Len(dl) |-> Project(dl[i], {"index", "loop_id"})]

\* line 28: the loop_id Series of the deals that are Under Contract, under
\* the index labels of those deals.
UnderContractIds(dl) ==
  LET uc == SelectSeq(dl, LAMBDA r : r.deal_status = "Under Contract")
  IN [i \in 1..Len(uc) |-> Project(uc[i], {"index", "loop_id"})]

\* line 29: quickbooks[quickbooks["deal_id"].isin(under_contract_ids)].
Forecast(qb, ids) ==
  SelectSeq(qb, LAMBDA r : r.deal_id \in {ids[i].loop_id : i \in 1..Len(ids)})

\* Mutant: line 34 without the status filter.
AllDeals(dl) == dl

\* line 34.
ClosedDeals(dl) == SelectSeq(dl, LAMBDA r : r.deal_status = "Closed")

RECURSIVE Flatten(_)
Flatten(ss) == IF ss = <<>> THEN <<>> ELSE ss[1] \o Flatten(Tail(ss))

\* Mutant: a join that keeps one row per left row that has a match.
InnerMergeFirstMatch(left, right, lk, rk) ==
  LET hit == SelectSeq(left, LAMBDA l : \E j \in 1..Len(right) : right[j][rk] = l[lk])
  IN [i \in 1..Len(hit) |->
       SetCol(hit[i] @@ SelectSeq(right, LAMBDA r : r[rk] = hit[i][lk])[1],
              "index", i - 1)]

\* DataFrame.merge(right, left_on=lk, right_on=rk), how="inner": one row per
\* matching pair, in the order of the left rows, under a fresh RangeIndex.
InnerMerge(left, right, lk, rk) ==
  Renumber(Flatten([i \in 1..Len(left) |->
    LET m == SelectSeq(right, LAMBDA r : r[rk] = left[i][lk])
    IN [j \in 1..Len(m) |-> left[i] @@ m[j]]]))

\* The right frame's columns other than the key, as nullable cells.
RightCells(r, key) == [c \in (DOMAIN r) \ {key, "index"} |-> Some(r[c])]
RightNulls(cols, key) == [c \in cols \ {key, "index"} |-> NULL]

\* DataFrame.merge(right, on=key, how="left"): every left row is kept; one
\* without a match gets NaN in the right frame's columns.
LeftMerge(left, right, key, rightCols) ==
  Renumber(Flatten([i \in 1..Len(left) |->
    LET m == SelectSeq(right, LAMBDA r : r[key] = left[i][key])
    IN IF m = <<>>
         THEN << left[i] @@ RightNulls(rightCols, key) >>
         ELSE [j \in 1..Len(m) |-> left[i] @@ RightCells(m[j], key)]]))

AgentColumns == {"index", "agent_id", "full_name"}

\* line 35.
LeaderboardDeals(cd, qb) == InnerMerge(cd, qb, "loop_id", "deal_id")

\* line 38.
LeaderboardNamed(lb, ag) == LeftMerge(lb, ag, "agent_id", AgentColumns)

\* The order of str keys, as Python compares them.
NameOrder == <<"A", "B", "C">>

\* groupby("full_name")["net_commission"].sum().reset_index(): NaN keys are
\* dropped (dropna=True), the groups come in ascending key order (sort=True).
GroupSum(rows) ==
  LET present == {Val(rows[i].full_name) :
                    i \in {j \in 1..Len(rows) : ~IsNull(rows[j].full_name)}}
      keys == SelectSeq(NameOrder, LAMBDA n : n \in present)
  IN [i \in 1..Len(keys) |->
       [index |-> i - 1,
        full_name |-> keys[i],
        net_commission |->
          SumCol(SelectSeq(rows, LAMBDA r : r.full_name = Some(keys[i])),
                 "net_commission")]]

IsDescending(rows, col) ==
  \A i \in 1..(Len(rows) - 1) : rows[i][col] >= rows[i + 1][col]

\* Mutant: sort_values without ascending=False.
SortValuesAsc(rows, col) ==
  {s \in {[i \in 1..Len(rows) |-> rows[p[i]]] :
            p \in Permutations(1..Len(rows))} :
     \A i \in 1..(Len(s) - 1) : s[i][col] <= s[i + 1][col]}

\* sort_values(by=col, ascending=False) with the default kind="quicksort",
\* which is not a stable sort: every descending arrangement of the rows is a
\* possible result; the index labels travel with the rows.
SortValuesDesc(rows, col) ==
  {s \in {[i \in 1..Len(rows) |-> rows[p[i]]] :
            p \in Permutations(1..Len(rows))} : IsDescending(s, col)}

Overview ==
  /\ pc = "overview"
  /\ under_contract_ids' = UnderContractIds(dotloop)
  /\ forecast' = Forecast(quickbooks, under_contract_ids')
  /\ expected_commission' = SumCol(forecast', "net_commission")
  /\ closed_deals' = ClosedDeals(dotloop)
  /\ leaderboard1' = LeaderboardDeals(closed_deals', quickbooks)
  /\ leaderboard' = LeaderboardNamed(leaderboard1', agents)
  /\ agent_summary' \in SortValuesDesc(GroupSum(leaderboard'), "net_commission")
  /\ pc' = "agent"
  /\ UNCHANGED <<csv, sources, agentOut, marketingOut, by_city, top_leads,
                 dashVars>>

\* ----------------------------------------------- Agent Performance tab
\* line 66: agents["full_name"].unique(), in order of first appearance.
UniqueNames(ag) ==
  LET first == SelectSeq([i \in 1..Len(ag) |-> i], LAMBDA i :
                 \A j \in 1..(i - 1) : ag[j].full_name # ag[i].full_name)
  IN [i \in 1..Len(first) |-> ag[first[i]].full_name]

\* line 67: agents[agents["full_name"] == selected_agent]["agent_id"].values[0].
AgentIdOf(ag, name) ==
  SelectSeq(ag, LAMBDA r : r.full_name = name)[1].agent_id

\* line 78: (actual_close_date - expected_close_date).dt.days; NaT on either
\* side gives NaN.  Dates are day numbers.
WithCloseTime(r) ==
  SetCol(r, "close_time",
         IF IsNull(r.actual_close_date) \/ IsNull(r.expected_close_date)
           THEN NULL
           ELSE Some(Val(r.actual_close_date) - Val(r.expected_close_date)))

\* Series.mean(): NaN cells are skipped; NaN when nothing is left.
MeanCloseTime(rows) ==
  LET have == SelectSeq(rows, LAMBDA r : ~IsNull(r.close_time))
      vals == [i \in 1..Len(have) |-> [v |-> Val(have[i].close_time)]]
  IN IF have = <<>> THEN NaN ELSE FDiv(SumCol(vals, "v"), Len(have))

\* line 70.
AgentDeals(dl, agent_id) == SelectSeq(dl, LAMBDA r : r.listing_agent_id = agent_id)

\* lines 77-79: NULL when st.metric("Avg Close Delay", ...) is not called,
\* else the mean that is formatted into it.
AvgCloseDelay(d) ==
  IF d = <<>>
    THEN NULL
    ELSE Some(MeanCloseTime([i \in 1..Len(d) |-> WithCloseTime(d[i])]))

AgentPerformance ==
  /\ pc = "agent"
  /\ \E name \in Range(UniqueNames(agents)) :
       LET agent_id == AgentIdOf(agents, name)
           own == AgentDeals(dotloop, agent_id)
       IN /\ selected_agent' = Some(name)
          /\ deals' = IF own = <<>>
                         THEN own
                         ELSE [i \in 1..Len(own) |-> WithCloseTime(own[i])]
          /\ agent_metrics' =
               [leads |-> Len(SelectSeq(fub, LAMBDA r : r.agent_assigned = name)),
                deals_closed |-> Len(ClosedDeals(own)),
                total_commission |->
                  SumCol(SelectSeq(quickbooks, LAMBDA r : r.agent_id = agent_id),
                         "net_commission"),
                avg_close_delay |-> AvgCloseDelay(own)]
  /\ pc' = "marketing"
  /\ UNCHANGED <<csv, sources, overviewOut, marketingOut, by_city, top_leads,
                 dashVars>>

\* --------------------------------------------------- Marketing ROI tab
WithClosedDeals(r) ==
  SetCol(r, "closed_deals", r.leads_generated \div ClosureRateDivisor)

WithCostPerClosedDeal(r) ==
  SetCol(r, "cost_per_closed_deal", FDiv(r.ad_spend, r.closed_deals))

\* Mutant: the filter of line 89 written with >= instead of >.
HasClosedDealsOrNone(r) == r.closed_deals >= 0

HasClosedDeals(r) == r.closed_deals > 0

WithNetCommission(r) ==
  SetCol(r, "net_commission", r.closed_deals * RevenuePerDeal)

\* Mutant: line 93 without the subtraction of the spend.
WithGrossRoi(r) == SetCol(r, "roi", FDiv(r.net_commission, r.ad_spend))

WithRoi(r) ==
  SetCol(r, "roi", FDiv(r.net_commission - r.ad_spend, r.ad_spend))

WithLeadsToCloseRatio(r) ==
  SetCol(r, "leads_to_close_ratio", FDiv(r.closed_deals, r.leads_generated))

\* lines 87-88: the two column assignments made before the filter.
MergedBeforeFilter(a) ==
  [i \in 1..Len(a) |-> WithCostPerClosedDeal(WithClosedDeals(a[i]))]

\* lines 86-128: the frame bound to `merged` when the tab is done.
MergedFrame(a) ==
  LET kept == SelectSeq(MergedBeforeFilter(a), HasClosedDeals)
  IN [i \in 1..Len(kept) |->
       WithLeadsToCloseRatio(WithRoi(WithNetCommission(kept[i])))]

TableColumns ==
  {"index", "utm_campaign", "platform", "leads_generated", "closed_deals",
   "ad_spend", "cost_per_closed_deal", "net_commission", "roi"}

TableView(m) == [i \in 1..Len(m) |-> Project(m[i], TableColumns)]

\* Mutant: merged = ads without .copy(); lines 87-88 then write to `ads`.
AdsAliased(a) == MergedBeforeFilter(a)

\* line 86, merged = ads.copy(): the column assignments land on the copy,
\* so the frame bound to `ads` is the one that was loaded.
AdsAfterMarketing(a) == a

MarketingROI ==
  /\ pc = "marketing"
  /\ merged' = MergedFrame(ads)
  /\ table_view' = TableView(merged')
  /\ ads' = AdsAfterMarketing(ads)
  /\ pc' = "territory"
  /\ UNCHANGED <<csv, fub, dotloop, quickbooks, agents, mls, overviewOut,
                 agentOut, by_city, top_leads,
                 dashVars>>

\* ------------------------------------------------ Territory Insights tab
ClosedListings(m) == SelectSeq(m, LAMBDA r : r.status = "Closed")

\* The order of the city keys, as Python compares them.
CityOrder == <<"Babylon", "Islip", "Montauk">>

\* lines 195-203, in thousandths of a degree; Montauk is not in the dict.
CityCoords ==
  [Babylon |-> [lat |-> 40695, lon |-> -73325],
   Islip |-> [lat |-> 40730, lon |-> -73190]]

\* agg(listings=("mls_id", "count")): the group's cells that are not NaN.
CountCol(rows, col) == Len(SelectSeq(rows, LAMBDA r : ~IsNull(r[col])))

\* groupby("city").agg(listings=("mls_id", "count"),
\* avg_sale_price=("sale_price", "mean")).reset_index(): one row per city of
\* the frame, in ascending key order.
GroupByCity(rows) ==
  LET present == {rows[i].city : i \in 1..Len(rows)}
      keys == SelectSeq(CityOrder, LAMBDA c : c \in present)
  IN [i \in 1..Len(keys) |->
       LET g == SelectSeq(rows, LAMBDA r : r.city = keys[i])
       IN [index |-> i - 1,
           city |-> keys[i],
           listings |-> CountCol(g, "mls_id"),
           avg_sale_price |-> FDiv(SumCol(g, "sale_price"), Len(g))]]

\* lines 210-211: city_coords.get(x, {}).get("lat", np.nan).
WithCoords(r) ==
  LET known == r.city \in DOMAIN CityCoords
  IN SetCol(SetCol(r, "lat", IF known THEN Some(CityCoords[r.city].lat) ELSE NULL),
            "lon", IF known THEN Some(CityCoords[r.city].lon) ELSE NULL)

\* lines 160-163 and 205-211 (the same expression, bound to by_city twice).
TerritoryInsights ==
  /\ pc = "territory"
  /\ \E s \in SortValuesDesc(GroupByCity(ClosedListings(mls)), "listings") :
       by_city' = [i \in 1..Len(s) |-> WithCoords(s[i])]
  /\ pc' = "scoring"
  /\ UNCHANGED <<csv, sources, overviewOut, agentOut, marketingOut, top_leads,
                 dashVars>>

\* ---------------------------------------------------- Lead Scoring tab
LeadColumns == {"index", "full_name", "email", "lead_source", "stage", "lead_score"}

HeadRows(rows, n) == SubSeq(rows, 1, IF Len(rows) < n THEN Len(rows) ELSE n)

\* line 232: np.random.rand(len(fub)), a score k / ScoreLevels in [0, 1) per
\* lead, kept as the level k.
LeadScoring ==
  /\ pc = "scoring"
  /\ \E score \in [1..Len(fub) -> 0..(ScoreLevels - 1)] :
       /\ fub' = [i \in 1..Len(fub) |-> SetCol(fub[i], "lead_score", score[i])]
       /\ \E s \in SortValuesDesc(fub', "lead_score") :
            top_leads' = [i \in 1..Len(HeadRows(s, TopLeads)) |->
                            Project(s[i], LeadColumns)]
  /\ pc' = "done"
  /\ UNCHANGED <<csv, dotloop, quickbooks, ads, agents, mls, overviewOut,
                 agentOut, marketingOut, by_city, dashVars>>

\* ------------------------------------------------------------ the script
\* A widget interaction reruns the script from the top: lines 9-14 read the
\* CSV files again and every tab is computed anew.
Rerun ==
  /\ pc = "done"
  /\ fub' = csv.fub
  /\ dotloop' = csv.dotloop
  /\ quickbooks' = csv.quickbooks
  /\ ads' = csv.ads
  /\ agents' = csv.agents
  /\ mls' = csv.mls
  /\ under_contract_ids' = <<>>
  /\ forecast' = <<>>
  /\ closed_deals' = <<>>
  /\ expected_commission' = 0
  /\ leaderboard1' = <<>>
  /\ leaderboard' = <<>>
  /\ agent_summary' = <<>>
  /\ selected_agent' = NULL
  /\ deals' = <<>>
  /\ agent_metrics' = NULL
  /\ merged' = <<>>
  /\ table_view' = <<>>
  /\ by_city' = <<>>
  /\ top_leads' = <<>>
  /\ pc' = "overview"
  /\ UNCHANGED <<csv, dashVars>>

\* ------------------------------------------------------- the CSV files
\* Sequences over S of length 0..n.
SeqsUpTo(S, n) == UNION {[1..k -> S] : k \in 0..n}

\* read_csv: the rows under a RangeIndex.
Indexed(rows) == [i \in 1..Len(rows) |-> SetCol(rows[i], "index", i - 1)]

Lead(name, agent) ==
  [full_name |-> name, email |-> "lead@example.com", lead_source |-> "Zillow",
   stage |-> "Lead", agent_assigned |-> agent]
Deal(loop, agent, status, actual) ==
  [loop_id |-> loop, listing_agent_id |-> agent, deal_status |-> status,
   expected_close_date |-> Some(10), actual_close_date |-> actual]
Invoice(deal, agent, amount) ==
  [deal_id |-> deal, agent_id |-> agent, net_commission |-> amount]
Campaign(spend, leads) ==
  [utm_campaign |-> "campaign", platform |-> "Google", ad_spend |-> spend,
   leads_generated |-> leads]
Agent(id, name) == [agent_id |-> id, full_name |-> name]
Listing(id, city, status) ==
  [mls_id |-> id, city |-> city, status |-> status, sale_price |-> 400]

FubDefault == Indexed(<<Lead("L1", "A")>>)
DotloopDefault ==
  Indexed(<<Deal(1, 1, "Closed", Some(12)), Deal(2, 2, "Under Contract", NULL)>>)
QuickbooksDefault == Indexed(<<Invoice(1, 1, 300), Invoice(2, 2, 500)>>)
AdsDefault == Indexed(<<Campaign(1000, 40)>>)
AgentsDefault == Indexed(<<Agent(1, "A"), Agent(2, "B")>>)
MlsDefault == Indexed(<<Listing(Some(1), "Babylon", "Closed")>>)

CsvDefault ==
  [fub |-> FubDefault, dotloop |-> DotloopDefault,
   quickbooks |-> QuickbooksDefault, ads |-> AdsDefault,
   agents |-> AgentsDefault, mls |-> MlsDefault]

\* The campaign files: ad_spend and leads_generated vary.
AdsFiles ==
  {Indexed(t) : t \in SeqsUpTo({Campaign(s, l) : s \in {0, 1000, 3000},
                                                 l \in {0, 3, 4, 40}}, MaxAds)}

\* The deal files of the Agent Performance tab: agent, status and
\* actual_close_date vary.
AgentDealFiles ==
  {Indexed(t) : t \in SeqsUpTo({Deal(1, a, s, d) :
                                  a \in {1, 2},
                                  s \in {"Closed", "Under Contract"},
                                  d \in {NULL, Some(8), Some(13)}}, MaxDeals)}

\* The deal and invoice files of the commission forecast: loop_id (not
\* necessarily unique: nothing in the script checks it), status and deal_id vary.
ForecastDealFiles ==
  {Indexed(t) : t \in SeqsUpTo({Deal(l, 1, s, NULL) :
                                  l \in {1, 2},
                                  s \in {"Closed", "Under Contract", "Pending"}},
                               MaxDeals)}
ForecastInvoiceFiles ==
  {Indexed(t) : t \in SeqsUpTo({Invoice(d, 1, c) : d \in {1, 2}, c \in {200, 300}},
                               MaxInvoices)}

\* The files of the leaderboard: the invoices' deal_id and agent_id vary, the
\* amounts are 300, 200, 500, ... by position.
Amounts == <<300, 200, 500, 400, 100>>
BoardDealFiles ==
  {Indexed(t) : t \in [1..2 -> {Deal(1, 1, "Closed", NULL),
                                Deal(2, 1, "Closed", NULL),
                                Deal(1, 1, "Under Contract", NULL)}]}
BoardInvoiceFiles ==
  {Indexed([i \in 1..Len(t) |-> Invoice(t[i][1], t[i][2], Amounts[i])]) :
     t \in SeqsUpTo({1, 2} \X {1, 2, 3}, MaxBoardInvoices)}
BoardAgentFiles ==
  {Indexed(<<Agent(1, "A"), Agent(2, "B")>>),
   Indexed(<<Agent(1, "B"), Agent(2, "A")>>),
   Indexed(<<Agent(1, "A"), Agent(2, "B"), Agent(2, "A")>>)}

\* The listing files: mls_id (possibly missing), city and status vary.
MlsFiles ==
  {Indexed(t) : t \in SeqsUpTo({Listing(i, c, s) :
                                  i \in {NULL, Some(7)},
                                  c \in {"Babylon", "Islip", "Montauk"},
                                  s \in {"Closed", "Active"}}, MaxListings)}

MarketingCsv == {[CsvDefault EXCEPT !.ads = a] : a \in AdsFiles}
AgentCsv == {[CsvDefault EXCEPT !.dotloop = d] : d \in AgentDealFiles}
ForecastCsv ==
  {[CsvDefault EXCEPT !.dotloop = d, !.quickbooks = q] :
     d \in ForecastDealFiles, q \in ForecastInvoiceFiles}
BoardCsv ==
  {[CsvDefault EXCEPT !.dotloop = d, !.quickbooks = q, !.agents = a] :
     d \in BoardDealFiles, q \in BoardInvoiceFiles, a \in BoardAgentFiles}
TerritoryCsv == {[CsvDefault EXCEPT !.mls = m] : m \in MlsFiles}

\* No tab of streamlit_app.py has been computed in this run of the script.
NothingRendered ==
  /\ under_contract_ids = <<>>
  /\ forecast = <<>>
  /\ closed_deals = <<>>
  /\ expected_commission = 0
  /\ leaderboard1 = <<>>
  /\ leaderboard = <<>>
  /\ agent_summary = <<>>
  /\ selected_agent = NULL
  /\ deals = <<>>
  /\ agent_metrics = NULL
  /\ merged = <<>>
  /\ table_view = <<>>
  /\ by_city = <<>>
  /\ top_leads = <<>>

\* dashman.py has not run.
DashIdle ==
  /\ dash_metrics = NULL
  /\ daily = <<>>
  /\ tech_perf = <<>>
  /\ type_summary = <<>>
  /\ upcoming = <<>>

\* The state after lines 9-14 have read the files `files`.
Loaded(files) ==
  /\ csv \in files
  /\ fub = csv.fub
  /\ dotloop = csv.dotloop
  /\ quickbooks = csv.quickbooks
  /\ ads = csv.ads
  /\ agents = csv.agents
  /\ mls = csv.mls
  /\ NothingRendered
  /\ df = <<>>
  /\ DashIdle
  /\ pc = "overview"

Init == Loaded(MarketingCsv \cup AgentCsv \cup ForecastCsv \cup TerritoryCsv)
InitMarketing == Loaded(MarketingCsv)
InitAgent == Loaded(AgentCsv)
InitForecast == Loaded(ForecastCsv)
InitBoard == Loaded(BoardCsv)
InitTerritory == Loaded(TerritoryCsv)

Next ==
  \/ Overview
  \/ AgentPerformance
  \/ MarketingROI
  \/ TerritoryInsights
  \/ LeadScoring
  \/ Rerun

Spec == Init /\ [][Next]_vars
SpecMarketing == InitMarketing /\ [][Next]_vars
SpecAgent == InitAgent /\ [][Next]_vars
SpecForecast == InitForecast /\ [][Next]_vars
SpecBoard == InitBoard /\ [][Next]_vars

\* =========================================================== dashman.py
\* Dates are day numbers; line 13's `today` is day Today.
Today == 2

TechnicianOrder == <<"Alex", "Jordan">>
JobTypeOrder == <<"HVAC", "Plumbing">>

Job(date, type, tech, status, revenue) ==
  [date |-> Some(date), job_type |-> type, technician |-> tech,
   status |-> status, revenue |-> revenue]

\* lines 16-43: a past job is Completed or Cancelled and has a revenue, a job
\* of today or later is Scheduled with revenue 0; the date is never missing.
JobRows ==
  {Job(Today - 1, t, n, s, 150) :
     t \in Range(JobTypeOrder), n \in Range(TechnicianOrder),
     s \in {"Completed", "Cancelled"}}
  \cup {Job(d, t, n, "Scheduled", 0) :
     d \in {Today, Today + 1}, t \in Range(JobTypeOrder),
     n \in Range(TechnicianOrder)}

JobFrames == {Indexed(t) : t \in SeqsUpTo(JobRows, MaxJobs) \ {<<>>}}

Completed(rows) == SelectSeq(rows, LAMBDA r : r.status = "Completed")

\* groupby(key).agg(jobs=("date", "count"), revenue=("revenue", "sum"))
\* .reset_index(): one row per key of the frame, in ascending key order.
GroupJobs(rows, key, order) ==
  LET present == {rows[i][key] : i \in 1..Len(rows)}
      keys == SelectSeq(order, LAMBDA k : k \in present)
  IN [i \in 1..Len(keys) |->
       LET g == SelectSeq(rows, LAMBDA r : r[key] = keys[i])
       IN SetCol([index |-> i - 1,
                  jobs |-> CountCol(g, "date"),
                  revenue |-> SumCol(g, "revenue")], key, keys[i])]

\* line 77: groupby("date")["revenue"].sum().reset_index().
GroupDaily(rows) ==
  LET days == {Val(rows[i].date) : i \in 1..Len(rows)}
      keys == SelectSeq([d \in 1..(Today + 1) |-> d], LAMBDA d : d \in days)
  IN [i \in 1..Len(keys) |->
       [index |-> i - 1, date |-> Some(keys[i]),
        revenue |-> SumCol(SelectSeq(rows, LAMBDA r : r.date = Some(keys[i])),
                           "revenue")]]

\* sort_values("date"), ascending, by the default quicksort.
SortByDate(rows) ==
  {s \in {[i \in 1..Len(rows) |-> rows[p[i]]] :
            p \in Permutations(1..Len(rows))} :
     \A i \in 1..(Len(s) - 1) : Val(s[i].date) <= Val(s[i + 1].date)}

appVars == <<csv, sources, overviewOut, agentOut, marketingOut, by_city, top_leads>>

\* lines 51-59: the date range picked between the frame's first and last day.
DateFilter ==
  /\ pc = "date_filter"
  /\ LET days == {Val(df[i].date) : i \in 1..Len(df)}
     IN \E start_date \in days, end_date \in days :
          /\ start_date <= end_date
          /\ df' = SelectSeq(df, LAMBDA r : /\ Val(r.date) >= start_date
                                            /\ Val(r.date) <= end_date)
  /\ pc' = "dash_overview"
  /\ UNCHANGED <<appVars, dash_metrics, daily, tech_perf, type_summary, upcoming>>

\* lines 64-79.
DashOverview ==
  /\ pc = "dash_overview"
  /\ dash_metrics' = [total_jobs |-> Len(df),
                      completed_jobs |-> Len(Completed(df)),
                      total_revenue |-> SumCol(df, "revenue")]
  /\ daily' = GroupDaily(Completed(df))
  /\ pc' = "technicians"
  /\ UNCHANGED <<appVars, df, tech_perf, type_summary, upcoming>>

\* lines 81-88.
TechnicianLeaderboard ==
  /\ pc = "technicians"
  /\ tech_perf' \in
       SortValuesDesc(GroupJobs(Completed(df), "technician", TechnicianOrder),
                      "revenue")
  /\ pc' = "job_types"
  /\ UNCHANGED <<appVars, df, dash_metrics, daily, type_summary, upcoming>>

\* lines 90-102.
JobTypes ==
  /\ pc = "job_types"
  /\ type_summary' \in
       SortValuesDesc(GroupJobs(Completed(df), "job_type", JobTypeOrder), "jobs")
  /\ pc' = "upcoming"
  /\ UNCHANGED <<appVars, df, dash_metrics, daily, tech_perf, upcoming>>

\* lines 104-107.
Upcoming ==
  /\ pc = "upcoming"
  /\ \E s \in SortByDate(SelectSeq(df, LAMBDA r : /\ r.status = "Scheduled"
                                                  /\ Val(r.date) >= Today)) :
       upcoming' = Renumber(s)
  /\ pc' = "dash_done"
  /\ UNCHANGED <<appVars, df, dash_metrics, daily, tech_perf, type_summary>>

\* The state after lines 8-43 have generated the frame.
InitDashman ==
  /\ csv = CsvDefault
  /\ fub = csv.fub
  /\ dotloop = csv.dotloop
  /\ quickbooks = csv.quickbooks
  /\ ads = csv.ads
  /\ agents = csv.agents
  /\ mls = csv.mls
  /\ NothingRendered
  /\ df \in JobFrames
  /\ DashIdle
  /\ pc = "date_filter"

NextDashman ==
  \/ DateFilter
  \/ DashOverview
  \/ TechnicianLeaderboard
  \/ JobTypes
  \/ Upcoming

\* Both dashboards: every group-by of the repository.
InitGroupBy == InitTerritory \/ InitDashman
NextGroupBy == Next \/ NextDashman
SpecGroupBy == InitGroupBy /\ [][NextGroupBy]_vars

\* ================================================================ claims
AfterMarketing == pc \in {"territory", "scoring", "done"}

OutputIndexes(rows) == {rows[j].index : j \in 1..Len(rows)}

\* C1: a campaign row whose closed_deals is 0 (fewer than 4 leads) carries no
\* cost_per_closed_deal in the Marketing ROI output, and one with 0 leads
\* carries no leads_to_close_ratio: the row is in neither `merged` nor the
\* table, so the metric is not there as 0, NaN or infinity; and such a row
\* does not make the computation fail: the tab completes, with every other
\* row in the output and both metrics finite there.
C1_UndefinedCampaignMetricsAbsent ==
  AfterMarketing =>
    /\ \A i \in 1..Len(ads) :
         /\ ads[i].leads_generated \div 4 = 0 =>
              /\ ads[i].index \notin OutputIndexes(table_view)
              /\ ads[i].index \notin OutputIndexes(merged)
         /\ ads[i].leads_generated = 0 =>
              ads[i].index \notin OutputIndexes(merged)
         /\ ads[i].leads_generated \div 4 > 0 =>
              /\ ads[i].index \in OutputIndexes(table_view)
              /\ ads[i].index \in OutputIndexes(merged)
    /\ \A j \in 1..Len(merged) :
         /\ IsFinite(merged[j].cost_per_closed_deal)
         /\ IsFinite(merged[j].leads_to_close_ratio)
         /\ merged[j].leads_to_close_ratio.n > 0

C1_Witness ==
  /\ AfterMarketing
  /\ \E i \in 1..Len(ads) : ads[i].leads_generated = 0
  /\ \E i \in 1..Len(ads) : ads[i].leads_generated = 3

\* C2: a campaign row with ad_spend = 0 has no roi in the Marketing ROI
\* output (the row is not in the table), also when it has closed deals.
C2_RoiExcludedWithoutSpend ==
  AfterMarketing =>
    \A i \in 1..Len(ads) :
      ads[i].ad_spend = 0 => ads[i].index \notin OutputIndexes(table_view)

\* C8: every row of the Marketing ROI output has closed_deals =
\* floor(leads_generated / 4), cost_per_closed_deal = ad_spend / closed_deals,
\* net_commission = closed_deals * 5000 and roi = (closed_deals * 5000 -
\* ad_spend) / ad_spend (the float quotient, +inf at ad_spend = 0); ad_spend
\* 1000 with 40 leads gives closed_deals 10, cost 100 and roi 49.
C8_DerivedCampaignMetrics ==
  AfterMarketing =>
    \A j \in 1..Len(table_view) :
      LET m == table_view[j]
          cost == m.cost_per_closed_deal
          gain == m.closed_deals * 5000 - m.ad_spend
      IN /\ 4 * m.closed_deals <= m.leads_generated
         /\ m.leads_generated < 4 * m.closed_deals + 4
         /\ IsFinite(cost) /\ cost.d > 0
         /\ cost.n * m.closed_deals = m.ad_spend * cost.d
         /\ m.net_commission = m.closed_deals * 5000
         /\ m.ad_spend # 0 =>
              /\ IsFinite(m.roi) /\ m.roi.d > 0
              /\ m.roi.n * m.ad_spend = gain * m.roi.d
         /\ m.ad_spend = 0 => m.roi = Inf(1)
         /\ (m.ad_spend = 1000 /\ m.leads_generated = 40) =>
              /\ m.closed_deals = 10
              /\ cost = Fin(100, 1)
              /\ m.roi = Fin(49, 1)

C8_Witness ==
  /\ AfterMarketing
  /\ \E j \in 1..Len(table_view) :
       /\ table_view[j].ad_spend = 1000
       /\ table_view[j].leads_generated = 40
       /\ table_view[j].roi = Fin(49, 1)
  /\ \E j \in 1..Len(table_view) : table_view[j].ad_spend = 3000

AfterOverview == pc \in {"agent", "marketing", "territory", "scoring", "done"}
AfterAgent == pc \in {"marketing", "territory", "scoring", "done"}
AfterTerritory == pc \in {"scoring", "done"}

RECURSIVE SetSum(_, _)
\* The sum of f over the finite set S.
SetSum(f, S) ==
  IF S = {} THEN 0
  ELSE LET x == CHOOSE y \in S : TRUE IN f[x] + SetSum(f, S \ {x})

\* C3: for the selected agent, Avg Close Delay is the mean of
\* actual_close_date - expected_close_date in days over the agent's deals with
\* an actual_close_date, and the metric is not emitted when there is no such
\* deal.
C3_AvgCloseDelay ==
  AfterAgent =>
    LET id == AgentIdOf(agents, Val(selected_agent))
        S == {i \in 1..Len(dotloop) :
                /\ dotloop[i].listing_agent_id = id
                /\ ~IsNull(dotloop[i].actual_close_date)}
        total == SetSum([i \in S |-> Val(dotloop[i].actual_close_date)
                                     - Val(dotloop[i].expected_close_date)], S)
        shown == agent_metrics.avg_close_delay
    IN IF S = {}
         THEN IsNull(shown)
         ELSE /\ ~IsNull(shown)
              /\ IsFinite(Val(shown))
              /\ Val(shown).n * Cardinality(S) = total * Val(shown).d

UnderContractRows == {i \in 1..Len(dotloop) : dotloop[i].deal_status = "Under Contract"}
ClosedRows == {i \in 1..Len(dotloop) : dotloop[i].deal_status = "Closed"}
InvoiceRows == 1..Len(quickbooks)

\* C4 as stated: Expected Commission is the sum of net_commission over the
\* inner join of invoices with Under Contract deals, one term per matching
\* deal/invoice pair.
C4_SumOverJoinedPairs ==
  AfterOverview =>
    LET pairs == {p \in UnderContractRows \X InvoiceRows :
                    quickbooks[p[2]].deal_id = dotloop[p[1]].loop_id}
    IN expected_commission =
         SetSum([p \in pairs |-> quickbooks[p[2]].net_commission], pairs)

\* C4 amended: Expected Commission is the sum of net_commission over the
\* invoices whose deal_id is the loop_id of at least one Under Contract deal,
\* one term per invoice; other invoices add nothing, and it is 0 when no deal
\* is Under Contract.
C4_SumOverMatchedInvoices ==
  AfterOverview =>
    LET hit == {j \in InvoiceRows :
                  \E i \in UnderContractRows :
                    quickbooks[j].deal_id = dotloop[i].loop_id}
    IN /\ expected_commission =
            SetSum([j \in hit |-> quickbooks[j].net_commission], hit)
       /\ UnderContractRows = {} => expected_commission = 0

C4_Witness ==
  /\ AfterOverview
  /\ expected_commission = 300
  /\ \E j \in InvoiceRows : \A i \in UnderContractRows :
       quickbooks[j].deal_id # dotloop[i].loop_id
  /\ \E i1, i2 \in UnderContractRows :
       i1 # i2 /\ dotloop[i1].loop_id = dotloop[i2].loop_id

FeedsForecast(q) == q.index \in OutputIndexes(forecast)
FeedsLeaderboard(q) ==
  /\ \E k \in 1..Len(closed_deals) : closed_deals[k].loop_id = q.deal_id
  /\ \E k \in 1..Len(leaderboard1) : leaderboard1[k].deal_id = q.deal_id

\* C7 as stated: no loop_id is both in the Under Contract forecast pool and
\* in the Closed pool, and no invoice feeds both Expected Commission and the
\* leaderboard.
C7_PoolsDisjointByLoopId ==
  AfterOverview =>
    /\ {under_contract_ids[i].loop_id : i \in 1..Len(under_contract_ids)}
         \cap {closed_deals[k].loop_id : k \in 1..Len(closed_deals)} = {}
    /\ \A j \in InvoiceRows :
         ~(FeedsForecast(quickbooks[j]) /\ FeedsLeaderboard(quickbooks[j]))

\* C7 amended: no deal row is in both pools, and an invoice feeds both
\* Expected Commission and the leaderboard only when its deal_id is the
\* loop_id of two deal rows, one Under Contract and one Closed; with loop_ids
\* that are unique, no invoice feeds both.
C7_PoolsDisjointByRow ==
  AfterOverview =>
    /\ OutputIndexes(under_contract_ids) \cap OutputIndexes(closed_deals) = {}
    /\ \A j \in InvoiceRows :
         (FeedsForecast(quickbooks[j]) /\ FeedsLeaderboard(quickbooks[j])) =>
           \E i1 \in UnderContractRows, i2 \in ClosedRows :
             /\ dotloop[i1].loop_id = quickbooks[j].deal_id
             /\ dotloop[i2].loop_id = quickbooks[j].deal_id
    /\ (\A i1, i2 \in 1..Len(dotloop) :
          dotloop[i1].loop_id = dotloop[i2].loop_id => i1 = i2) =>
         \A j \in InvoiceRows :
           ~(FeedsForecast(quickbooks[j]) /\ FeedsLeaderboard(quickbooks[j]))

C7_Witness ==
  /\ AfterOverview
  /\ under_contract_ids # <<>>
  /\ closed_deals # <<>>
  /\ \E j \in InvoiceRows : FeedsForecast(quickbooks[j])
  /\ \E j \in InvoiceRows : FeedsLeaderboard(quickbooks[j])
  /\ \A i1, i2 \in 1..Len(dotloop) :
       dotloop[i1].loop_id = dotloop[i2].loop_id => i1 = i2

\* Rows of `rows` whose column col holds k.
Matching(rows, col, k) == {i \in 1..Len(rows) : rows[i][col] = k}
Keys(rows, col) == {rows[i][col] : i \in 1..Len(rows)}

ClosedLoopIds == {dotloop[i].loop_id : i \in ClosedRows}
DealPairs ==
  LET both == ClosedLoopIds \cap Keys(quickbooks, "deal_id")
  IN SetSum([k \in both |->
               Cardinality({i \in ClosedRows : dotloop[i].loop_id = k})
               * Cardinality(Matching(quickbooks, "deal_id", k))], both)
AgentPairs ==
  LET both == Keys(leaderboard1, "agent_id") \cap Keys(agents, "agent_id")
  IN SetSum([k \in both |->
               Cardinality(Matching(leaderboard1, "agent_id", k))
               * Cardinality(Matching(agents, "agent_id", k))], both)
Nameless ==
  {i \in 1..Len(leaderboard1) :
     leaderboard1[i].agent_id \notin Keys(agents, "agent_id")}

\* C10 as stated: each join of closed deals |><| invoices |><| agents has as
\* many rows as the sum over the keys present on both sides of left count
\* times right count; a row without a match on the other side adds no row.
C10_BothJoinsInner ==
  AfterOverview =>
    /\ Len(leaderboard1) = DealPairs
    /\ Len(leaderboard) = AgentPairs

\* C10 amended: the join of closed deals with invoices is as stated; the join
\* with agents is a left join: on top of the matching pairs it keeps each
\* joined row whose agent_id is not in agents, once, with a missing
\* full_name.
C10_InnerThenLeftJoin ==
  AfterOverview =>
    /\ Len(leaderboard1) = DealPairs
    /\ Len(leaderboard) = AgentPairs + Cardinality(Nameless)
    /\ Cardinality({i \in 1..Len(leaderboard) : IsNull(leaderboard[i].full_name)})
         = Cardinality(Nameless)

C10_Witness ==
  /\ AfterOverview
  /\ Len(leaderboard1) = 4
  /\ \E j \in InvoiceRows : quickbooks[j].deal_id \notin ClosedLoopIds
  /\ Nameless # {}
  /\ AgentPairs > Len(leaderboard1) - Cardinality(Nameless)

\* The (closed deal, invoice, agent) triples of the leaderboard.
BoardTriples ==
  {t \in ClosedRows \X InvoiceRows \X (1..Len(agents)) :
     /\ quickbooks[t[2]].deal_id = dotloop[t[1]].loop_id
     /\ agents[t[3]].agent_id = quickbooks[t[2]].agent_id}
BoardNames == {agents[t[3]].full_name : t \in BoardTriples}
BoardSum(name) ==
  LET mine == {t \in BoardTriples : agents[t[3]].full_name = name}
  IN SetSum([t \in mine |-> quickbooks[t[2]].net_commission], mine)

\* The place of name's first row in the joined frame.
FirstRow(name) ==
  CHOOSE i \in 1..Len(leaderboard) :
    /\ leaderboard[i].full_name = Some(name)
    /\ \A j \in 1..(i - 1) : leaderboard[j].full_name # Some(name)

\* C5 amended: the leaderboard has one row per full_name that has an invoice
\* joined to a Closed deal, with the sum of net_commission of the joined
\* rows, in descending order of the sum; the order of equal sums is not
\* fixed.
C5_LeaderboardSummary ==
  AfterOverview =>
    /\ Keys(agent_summary, "full_name") = BoardNames
    /\ Len(agent_summary) = Cardinality(BoardNames)
    /\ \A i \in 1..Len(agent_summary) :
         agent_summary[i].net_commission = BoardSum(agent_summary[i].full_name)
    /\ \A i \in 1..(Len(agent_summary) - 1) :
         agent_summary[i].net_commission >= agent_summary[i + 1].net_commission

\* C5 as stated: the same, and agents with equal sums come in the order in
\* which they first appear in the input.
C5_TiesInInputOrder ==
  /\ C5_LeaderboardSummary
  /\ AfterOverview =>
       \A i, j \in 1..Len(agent_summary) :
         (i < j /\ agent_summary[i].net_commission = agent_summary[j].net_commission) =>
           FirstRow(agent_summary[i].full_name) < FirstRow(agent_summary[j].full_name)

C5_Witness ==
  /\ AfterOverview
  /\ Len(quickbooks) = 3
  /\ Len(leaderboard) = 3
  /\ [i \in 1..Len(agent_summary) |->
        Project(agent_summary[i], {"full_name", "net_commission"})]
       = <<[full_name |-> "A", net_commission |-> 500],
           [full_name |-> "B", net_commission |-> 500]>>
  /\ FirstRow("A") = 1

\* C9: whatever tabs have been computed, dotloop, quickbooks, ads, agents and
\* mls are the frames that were loaded, row for row and column for column,
\* and fub is the loaded frame but for the lead_score column; close_time,
\* closed_deals, cost_per_closed_deal, roi, lat and lon are on no source frame.
C9_SourcesUnchanged ==
  /\ dotloop = csv.dotloop
  /\ quickbooks = csv.quickbooks
  /\ ads = csv.ads
  /\ agents = csv.agents
  /\ mls = csv.mls
  /\ Len(fub) = Len(csv.fub)
  /\ \A i \in 1..Len(fub) :
       Project(fub[i], (DOMAIN fub[i]) \ {"lead_score"}) = csv.fub[i]
  /\ \A t \in {fub, dotloop, quickbooks, ads, agents, mls} :
       \A i \in 1..Len(t) :
         (DOMAIN t[i]) \cap {"close_time", "closed_deals", "cost_per_closed_deal",
                             "roi", "leads_to_close_ratio",
                             "lat", "lon"} = {}

C9_Witness ==
  /\ pc = "done"
  /\ merged # <<>>
  /\ \E i \in 1..Len(deals) : "close_time" \in DOMAIN deals[i]
  /\ \E i \in 1..Len(by_city) : "lat" \in DOMAIN by_city[i]
  /\ \E i \in 1..Len(fub) : "lead_score" \in DOMAIN fub[i]
  /\ Len(ads) = 2

\* One row per key of the filtered input, and the counts add up to its rows.
GroupByCounts(out, key, count, input) ==
  /\ Keys(out, key) = Keys(input, key)
  /\ Len(out) = Cardinality(Keys(input, key))
  /\ SumCol(out, count) = Len(input)

\* C6: each group-by (closed listings by city, completed jobs by technician
\* and by job_type) has one row per key of its filtered input, and its counts
\* add up to the number of filtered rows, a row being counted also when its
\* mls_id or date is missing.
C6_GroupByCountsAllRows ==
  /\ AfterTerritory =>
       GroupByCounts(by_city, "city", "listings",
                     SelectSeq(mls, LAMBDA r : r.status = "Closed"))
  /\ pc \in {"job_types", "upcoming", "dash_done"} =>
       GroupByCounts(tech_perf, "technician", "jobs",
                     SelectSeq(df, LAMBDA r : r.status = "Completed"))
  /\ pc \in {"upcoming", "dash_done"} =>
       GroupByCounts(type_summary, "job_type", "jobs",
                     SelectSeq(df, LAMBDA r : r.status = "Completed"))

====
